---- MODULE Spec2Model ----
(***************************************************************************)
(* Composition pipeline of apollo-federation (composition/mod.rs).         *)
(*                                                                         *)
(* compose() is modelled as a sequential process whose position `pc` is    *)
(* the next stage to call.  Every stage function of mod.rs is an operator  *)
(* computed the way the code computes it; the collaborators that live      *)
(* outside mod.rs (expand_links, upgrade, validate, ValidFederationSchema, *)
(* the merge engine, the document validator, the query-graph builder and   *)
(* the satisfiability solver) are deterministic functions of the schema    *)
(* document, or outcomes drawn from small sets.                            *)
(***************************************************************************)
EXTENDS Integers, Sequences, FiniteSets, TLC

VARIABLES
    pc,          \* the stage compose() calls next, or "done"
    input,       \* the Vec<Subgraph<Initial>> compose() was called with
    subgraphs,   \* the subgraph list compose() currently owns
    supergraph,  \* <<sg>> while compose() owns the supergraph sg, else <<>>
    calls,       \* history: one record [fn, arg, outcome, ret] per stage invocation
    engine,      \* history: the maps handed to merge_federation_subgraphs
    result       \* <<r>> once compose() has returned r, else <<>>

vars == <<pc, input, subgraphs, supergraph, calls, engine, result>>

(***************************************************************************)
(* Bounds                                                                  *)
(***************************************************************************)
MaxSubgraphs == 3      \* longest input list
MaxConflicts == 2      \* longest conflict list of the merge engine
MaxDocErrors == 1      \* longest error list of the document validator

(***************************************************************************)
(* Data                                                                    *)
(***************************************************************************)
Names == {"A", "B"}

UrlOf(name) == IF name = "A" THEN "http://a" ELSE "http://b"

\* A schema document: its object types (type name -> field names), whether a
\* root query operation is declared, and the one thing (if any) that makes a
\* collaborator reject it.
Defects == {"none", "link", "version", "key", "federation"}

TypesQ  == ("Query" :> {"hello"}) @@ ("T1" :> {"id"})
TypesT2 == ("T2" :> {"id"})
NoTypes == [t \in {} |-> {}]

Doc(types, query, defect) == [types |-> types, query |-> query, defect |-> defect]

Documents ==
    {Doc(TypesQ, TRUE, d) : d \in Defects}
        \cup {Doc(TypesT2, FALSE, "none"), Doc(NoTypes, FALSE, "none")}

States == <<"Initial", "Expanded", "Upgraded", "Validated">>

\* Subgraph::<Initial>::new(name, url, schema)
NewSubgraph(name, url, schema) ==
    [name |-> name, url |-> url, schema |-> schema, state |-> "Initial"]

InitialSubgraphs == {NewSubgraph(n, UrlOf(n), d) : n \in Names, d \in Documents}

SeqsUpTo(S, n) == UNION {[1..k -> S] : k \in 0..n}

(***************************************************************************)
(* Results and errors.  A message is a sequence of text parts, so that     *)
(* format!("...{}", e) is the concatenation of its parts.                  *)
(***************************************************************************)
Ok(v)  == [ok |-> TRUE, value |-> v, errors |-> <<>>]
Err(e) == [ok |-> FALSE, value |-> <<>>, errors |-> e]

TypeDefinitionInvalid(message) ==
    [kind |-> "TypeDefinitionInvalid", subgraph |-> "", message |-> message]
SubgraphError(subgraph, error) ==
    [kind |-> "SubgraphError", subgraph |-> subgraph, message |-> error]
SatisfiabilityError(message) ==
    [kind |-> "SatisfiabilityError", subgraph |-> "", message |-> message]
InternalError(message) ==
    [kind |-> "InternalError", subgraph |-> "", message |-> message]

(***************************************************************************)
(* Collaborators on one subgraph                                           *)
(***************************************************************************)
Advance(s, to) == [s EXCEPT !.state = to]

\* Subgraph<Initial>::expand_links, followed by e.into()
expand_links(s) ==
    IF s.schema.defect = "link"
    THEN [ok |-> FALSE, value |-> s, error |-> SubgraphError(s.name, <<"link">>)]
    ELSE [ok |-> TRUE, value |-> Advance(s, "Expanded"), error |-> <<>>]

\* Subgraph<Expanded>::upgrade
upgrade(s) ==
    IF s.schema.defect = "version"
    THEN [ok |-> FALSE, value |-> s, error |-> SubgraphError(s.name, <<"version">>)]
    ELSE [ok |-> TRUE, value |-> Advance(s, "Upgraded"), error |-> <<>>]

\* Subgraph<Upgraded>::validate, followed by e.into()
validate(s) ==
    IF s.schema.defect = "key"
    THEN [ok |-> FALSE, value |-> s, error |-> SubgraphError(s.name, <<"key">>)]
    ELSE [ok |-> TRUE, value |-> Advance(s, "Validated"), error |-> <<>>]

\* ValidFederationSchema::new(Valid::assume_valid(schema))
ValidFederationSchema(schema) ==
    IF schema.defect = "federation"
    THEN [ok |-> FALSE, value |-> schema, error |-> <<"federation">>]
    ELSE [ok |-> TRUE, value |-> schema, error |-> <<>>]

\* Subgraph::schema_string: the serialized document
schema_string(s) ==
    <<s.schema.query, s.schema.defect, DOMAIN s.schema.types, s.schema.types>>

(***************************************************************************)
(* Batch stages                                                            *)
(***************************************************************************)
IsOk(r) == r.ok
IsErr(r) == ~r.ok

\* .filter_map(|r| r.map_err(|e| errors.push(e)).ok()).collect()
Collected(rs) ==
    LET oks == SelectSeq(rs, IsOk) IN [i \in 1..Len(oks) |-> oks[i].value]

Pushed(rs) ==
    LET bad == SelectSeq(rs, IsErr) IN [i \in 1..Len(bad) |-> bad[i].error]

\* a variant that stops at the first failing subgraph
expand_subgraphs_first_error(subs) ==
    LET rs == [i \in 1..Len(subs) |-> expand_links(subs[i])]
        errors == Pushed(rs)
        expanded == Collected(rs)
    IN  IF errors = <<>> THEN Ok(expanded) ELSE Err(<<errors[1]>>)

expand_subgraphs(subs) ==
    LET rs == [i \in 1..Len(subs) |-> expand_links(subs[i])]
        errors == Pushed(rs)
        expanded == Collected(rs)
    IN  IF errors = <<>> THEN Ok(expanded) ELSE Err(errors)

upgrade_subgraphs_if_necessary(subs) ==
    LET rs == [i \in 1..Len(subs) |-> upgrade(subs[i])]
        errors == Pushed(rs)
        upgraded == Collected(rs)
    IN  IF errors = <<>> THEN Ok(upgraded) ELSE Err(errors)

\* a variant that collects the results back to front
validate_subgraphs_reversed(subs) ==
    LET rs == [i \in 1..Len(subs) |-> validate(subs[Len(subs) + 1 - i])]
        errors == Pushed(rs)
        validated == Collected(rs)
    IN  IF errors = <<>> THEN Ok(validated) ELSE Err(errors)

validate_subgraphs(subs) ==
    LET rs == [i \in 1..Len(subs) |-> validate(subs[i])]
        errors == Pushed(rs)
        validated == Collected(rs)
    IN  IF errors = <<>> THEN Ok(validated) ELSE Err(errors)

(***************************************************************************)
(* pre_merge_validations                                                   *)
(***************************************************************************)
DuplicateSchema == TypeDefinitionInvalid(<<"Duplicate subgraph schema detected">>)

\* the first loop: seen_schemas.insert(schema_str) is false for a string seen before
RECURSIVE duplicate_scan(_, _, _, _)
duplicate_scan(subs, i, seen_schemas, errors) ==
    IF i > Len(subs) THEN errors
    ELSE LET schema_str == schema_string(subs[i])
         IN  duplicate_scan(subs, i + 1, seen_schemas \cup {schema_str},
                            IF schema_str \in seen_schemas
                            THEN Append(errors, DuplicateSchema)
                            ELSE errors)

\* a variant that compares each schema with the one just before it only
duplicate_errors_adjacent(subs) ==
    LET dup == SelectSeq([i \in 1..Len(subs) |->
                            i > 1 /\ schema_string(subs[i]) = schema_string(subs[i - 1])],
                         LAMBDA b : b)
    IN  [i \in 1..Len(dup) |-> DuplicateSchema]

duplicate_errors(subs) == duplicate_scan(subs, 1, {}, <<>>)

\* the second loop: one SubgraphError per subgraph whose schema does not convert
revalidation_errors(subs) ==
    LET rs == [i \in 1..Len(subs) |-> ValidFederationSchema(subs[i].schema)]
        bad == SelectSeq(rs, IsErr)
    IN  [i \in 1..Len(bad) |-> SubgraphError("Subgraph", bad[i].error)]

\* a variant that returns after the first loop when it found a duplicate
pre_merge_validations_short_circuit(subs) ==
    LET dups == duplicate_errors(subs)
        errors == dups \o revalidation_errors(subs)
    IN  IF dups # <<>> THEN Err(dups)
        ELSE IF errors = <<>> THEN Ok(<<>>) ELSE Err(errors)

pre_merge_validations(subs) ==
    LET errors == duplicate_errors(subs) \o revalidation_errors(subs)
    IN  IF errors = <<>> THEN Ok(<<>>) ELSE Err(errors)

(***************************************************************************)
(* merge_subgraphs                                                         *)
(***************************************************************************)
EmptyMap == <<>>

\* BTreeMap::insert: an existing key keeps its place and gets the new value
MapInsert(m, k, v) == [x \in DOMAIN m \cup {k} |-> IF x = k THEN v ELSE m[x]]

ValidFederationSubgraph(name, url, schema) ==
    [name |-> name, url |-> url, schema |-> schema]

\* a variant that leaves out a schema that does not convert and goes on
RECURSIVE convert_loop_skipping(_, _, _)
convert_loop_skipping(subs, i, subgraphs_map) ==
    IF i > Len(subs) THEN [ok |-> TRUE, value |-> subgraphs_map, error |-> <<>>]
    ELSE LET conv == ValidFederationSchema(subs[i].schema)
         IN  IF conv.ok
             THEN convert_loop_skipping(subs, i + 1,
                      MapInsert(subgraphs_map, "Subgraph",
                          ValidFederationSubgraph("Subgraph", "", conv.value)))
             ELSE convert_loop_skipping(subs, i + 1, subgraphs_map)

\* the conversion loop, which returns at the first schema that does not convert
RECURSIVE convert_loop(_, _, _)
convert_loop(subs, i, subgraphs_map) ==
    IF i > Len(subs) THEN [ok |-> TRUE, value |-> subgraphs_map, error |-> <<>>]
    ELSE LET conv == ValidFederationSchema(subs[i].schema)
         IN  IF conv.ok
             THEN convert_loop(subs, i + 1,
                      MapInsert(subgraphs_map, "Subgraph",
                          ValidFederationSubgraph("Subgraph", "", conv.value)))
             ELSE [ok |-> FALSE, value |-> subgraphs_map,
                   error |-> SubgraphError("Subgraph", conv.error)]

subgraphs_for_merge(subs) == convert_loop(subs, 1, EmptyMap)

\* the schema the merge engine builds from the entries it is given
MergedTypes(m) ==
    LET names == UNION {DOMAIN m[k].schema.types : k \in DOMAIN m}
    IN  [t \in names |->
            UNION {m[k].schema.types[t] :
                     k \in {k2 \in DOMAIN m : t \in DOMAIN m[k2].schema.types}}]

MergedSchema(m) ==
    [types |-> MergedTypes(m), query |-> \E k \in DOMAIN m : m[k].schema.query]

Conflicts == {<<"conflict 1">>, <<"conflict 2">>}

MergeOutcomes ==
    {[ok |-> TRUE, errors |-> <<>>]}
        \cup {[ok |-> FALSE, errors |-> e] : e \in SeqsUpTo(Conflicts, MaxConflicts)}

\* merge_federation_subgraphs: MergeSuccess{schema} or MergeFailure{errors}
merge_federation_subgraphs(m, outcome) ==
    IF outcome.ok THEN Ok(MergedSchema(m)) ELSE Err(outcome.errors)

NewSupergraph(schema, state) == [schema |-> schema, state |-> state]

\* a variant that hands the conflicts over last to first
merge_subgraphs_reversed_conflicts(subs, outcome) ==
    LET conv == subgraphs_for_merge(subs)
    IN  IF ~conv.ok THEN Err(<<conv.error>>)
        ELSE LET m == merge_federation_subgraphs(conv.value, outcome)
                 n == Len(m.errors)
             IN  IF m.ok THEN Ok(NewSupergraph(m.value, "Merged"))
                 ELSE Err([i \in 1..n |-> InternalError(m.errors[n + 1 - i])])

merge_subgraphs(subs, outcome) ==
    LET conv == subgraphs_for_merge(subs)
    IN  IF ~conv.ok THEN Err(<<conv.error>>)
        ELSE LET m == merge_federation_subgraphs(conv.value, outcome)
             IN  IF m.ok THEN Ok(NewSupergraph(m.value, "Merged"))
                 ELSE Err([i \in 1..Len(m.errors) |-> InternalError(m.errors[i])])

(***************************************************************************)
(* post_merge_validations                                                  *)
(***************************************************************************)
DocErrors == {<<"document error 1">>, <<"document error 2">>}

\* the fields <<type, field>> a merged schema can declare
Fields == {<<"Query", "hello">>, <<"T1", "id">>, <<"T2", "id">>}

\* What the collaborators of post_merge_validations answer for one schema:
\* the errors of Schema::validate, whether ValidFederationSchema::new
\* succeeds, whether build_federated_query_graph succeeds, and the fields
\* for which the graph it builds has no resolution path.
PostMergeOutcomes ==
    [doc : SeqsUpTo(DocErrors, MaxDocErrors), fed : BOOLEAN, graph : BOOLEAN,
     unreachable : SUBSET Fields]

RECURSIVE SetToSeq(_)
SetToSeq(S) ==
    IF S = {} THEN <<>>
    ELSE LET x == CHOOSE y \in S : TRUE IN <<x>> \o SetToSeq(S \ {x})

\* the last loop: a field that its own type's field map does not contain
unresolved_fields(schema) ==
    {tf \in UNION {{<<t, f>> : f \in schema.types[t]} : t \in DOMAIN schema.types} :
        tf[2] \notin schema.types[tf[1]]}

resolvability_errors(schema) ==
    LET fs == SetToSeq(unresolved_fields(schema))
    IN  [i \in 1..Len(fs) |->
            SatisfiabilityError(<<"Field '", fs[i][1], ".", fs[i][2],
                                  "' cannot be resolved across subgraphs">>)]

\* a variant that looks for the root query only when the type set is empty
post_merge_validations_nested_query_check(sg, o) ==
    LET schema == sg.schema
        e2 == IF DOMAIN schema.types = {}
              THEN <<TypeDefinitionInvalid(<<"Empty supergraph schema">>)>>
                       \o (IF ~schema.query
                           THEN <<TypeDefinitionInvalid(<<"Missing root Query type">>)>>
                           ELSE <<>>)
              ELSE <<>>
        e3 == e2 \o [i \in 1..Len(o.doc) |-> TypeDefinitionInvalid(o.doc[i])]
    IN  IF ~o.fed
        THEN Err(Append(e3, InternalError(<<"Failed to convert schema: ", "federation">>)))
        ELSE IF ~o.graph
        THEN Err(Append(e3, InternalError(<<"Failed to build federated query graph: ",
                                            "graph">>)))
        ELSE LET errors == e3 \o resolvability_errors(schema)
             IN  IF errors = <<>> THEN Ok(<<>>) ELSE Err(errors)

\* a variant whose early returns carry the new InternalError alone
post_merge_validations_dropping_collected(sg, o) ==
    LET schema == sg.schema
        e1 == IF DOMAIN schema.types = {}
              THEN <<TypeDefinitionInvalid(<<"Empty supergraph schema">>)>>
              ELSE <<>>
        e2 == IF ~schema.query
              THEN Append(e1, TypeDefinitionInvalid(<<"Missing root Query type">>))
              ELSE e1
        e3 == e2 \o [i \in 1..Len(o.doc) |-> TypeDefinitionInvalid(o.doc[i])]
    IN  IF ~o.fed
        THEN Err(<<InternalError(<<"Failed to convert schema: ", "federation">>)>>)
        ELSE IF ~o.graph
        THEN Err(<<InternalError(<<"Failed to build federated query graph: ", "graph">>)>>)
        ELSE LET errors == e3 \o resolvability_errors(schema)
             IN  IF errors = <<>> THEN Ok(<<>>) ELSE Err(errors)

\* a variant that stops checking the document once the type set is empty
post_merge_validations_else_if(sg, o) ==
    LET schema == sg.schema
        e3 == IF DOMAIN schema.types = {}
              THEN <<TypeDefinitionInvalid(<<"Empty supergraph schema">>)>>
              ELSE (IF ~schema.query
                    THEN <<TypeDefinitionInvalid(<<"Missing root Query type">>)>>
                    ELSE <<>>)
                       \o [i \in 1..Len(o.doc) |-> TypeDefinitionInvalid(o.doc[i])]
    IN  IF ~o.fed
        THEN Err(Append(e3, InternalError(<<"Failed to convert schema: ", "federation">>)))
        ELSE IF ~o.graph
        THEN Err(Append(e3, InternalError(<<"Failed to build federated query graph: ",
                                            "graph">>)))
        ELSE LET errors == e3 \o resolvability_errors(schema)
             IN  IF errors = <<>> THEN Ok(<<>>) ELSE Err(errors)

post_merge_validations(sg, o) ==
    LET schema == sg.schema
        e1 == IF DOMAIN schema.types = {}
              THEN <<TypeDefinitionInvalid(<<"Empty supergraph schema">>)>>
              ELSE <<>>
        e2 == IF ~schema.query
              THEN Append(e1, TypeDefinitionInvalid(<<"Missing root Query type">>))
              ELSE e1
        e3 == e2 \o [i \in 1..Len(o.doc) |-> TypeDefinitionInvalid(o.doc[i])]
    IN  IF ~o.fed
        THEN Err(Append(e3, InternalError(<<"Failed to convert schema: ", "federation">>)))
        ELSE IF ~o.graph
        THEN Err(Append(e3, InternalError(<<"Failed to build federated query graph: ",
                                            "graph">>)))
        ELSE LET errors == e3 \o resolvability_errors(schema)
             IN  IF errors = <<>> THEN Ok(<<>>) ELSE Err(errors)

(***************************************************************************)
(* validate_satisfiability                                                 *)
(***************************************************************************)
Unsatisfiable == SatisfiabilityError(<<"unsatisfiable">>)

SatisfiabilityOutcomes ==
    {[ok |-> TRUE, errors |-> <<>>], [ok |-> FALSE, errors |-> <<>>],
     [ok |-> FALSE, errors |-> <<Unsatisfiable>>]}

validate_satisfiability(sg, outcome) ==
    IF outcome.ok THEN Ok(NewSupergraph(sg.schema, "Satisfiable"))
    ELSE Err(outcome.errors)

(***************************************************************************)
(* compose                                                                 *)
(***************************************************************************)
\* variants of the order: one without pre_merge_validations, one without the upgrade
Pipeline_without_pre_merge ==
    <<"expand_subgraphs", "upgrade_subgraphs_if_necessary", "validate_subgraphs",
      "merge_subgraphs", "post_merge_validations", "validate_satisfiability">>

Pipeline_without_upgrade ==
    <<"expand_subgraphs", "validate_subgraphs", "pre_merge_validations",
      "merge_subgraphs", "post_merge_validations", "validate_satisfiability">>

\* the order in which compose() calls the stages
Pipeline ==
    <<"expand_subgraphs", "upgrade_subgraphs_if_necessary", "validate_subgraphs",
      "pre_merge_validations", "merge_subgraphs", "post_merge_validations",
      "validate_satisfiability">>

Following(stage) ==
    LET i == CHOOSE j \in 1..Len(Pipeline) : Pipeline[j] = stage
    IN  IF i = Len(Pipeline) THEN "done" ELSE Pipeline[i + 1]

\* a variant in which the result of post_merge_validations is dropped
Question_ignoring_post_merge(r, stage) ==
    IF r.ok \/ stage = "post_merge_validations" THEN Following(stage) ELSE "done"

\* the `?` after a stage: go on when it returned Ok, return from compose() otherwise
Question(r, stage) == IF r.ok THEN Following(stage) ELSE "done"

\* what compose() has returned once the `?` after a stage has seen r
Propagated(r) == IF r.ok THEN <<>> ELSE <<Err(r.errors)>>

\* outcome: what the stage's collaborators answered, <<>> when the argument decides it
Call(fn, arg, outcome, ret) == [fn |-> fn, arg |-> arg, outcome |-> outcome, ret |-> ret]

Init ==
    /\ input \in SeqsUpTo(InitialSubgraphs, MaxSubgraphs)
    /\ subgraphs = input
    /\ pc = Pipeline[1]
    /\ supergraph = <<>>
    /\ calls = <<>>
    /\ engine = <<>>
    /\ result = <<>>

Expand ==
    /\ pc = "expand_subgraphs"
    /\ LET r == expand_subgraphs(subgraphs)
       IN  /\ calls' = Append(calls, Call("expand_subgraphs", subgraphs, <<>>, r))
           /\ subgraphs' = r.value
           /\ pc' = Question(r, "expand_subgraphs")
           /\ result' = Propagated(r)
    /\ UNCHANGED <<input, supergraph, engine>>

Upgrade ==
    /\ pc = "upgrade_subgraphs_if_necessary"
    /\ LET r == upgrade_subgraphs_if_necessary(subgraphs)
       IN  /\ calls' = Append(calls, Call("upgrade_subgraphs_if_necessary", subgraphs, <<>>, r))
           /\ subgraphs' = r.value
           /\ pc' = Question(r, "upgrade_subgraphs_if_necessary")
           /\ result' = Propagated(r)
    /\ UNCHANGED <<input, supergraph, engine>>

Validate ==
    /\ pc = "validate_subgraphs"
    /\ LET r == validate_subgraphs(subgraphs)
       IN  /\ calls' = Append(calls, Call("validate_subgraphs", subgraphs, <<>>, r))
           /\ subgraphs' = r.value
           /\ pc' = Question(r, "validate_subgraphs")
           /\ result' = Propagated(r)
    /\ UNCHANGED <<input, supergraph, engine>>

\* a variant in which the validator reorders the list it is lent
PreMerge_reordering ==
    /\ pc = "pre_merge_validations"
    /\ LET r == pre_merge_validations(subgraphs)
       IN  /\ calls' = Append(calls, Call("pre_merge_validations", subgraphs, <<>>, r))
           /\ pc' = Question(r, "pre_merge_validations")
           /\ result' = Propagated(r)
    /\ subgraphs' = [i \in 1..Len(subgraphs) |-> subgraphs[Len(subgraphs) + 1 - i]]
    /\ UNCHANGED <<input, supergraph, engine>>

PreMerge ==
    /\ pc = "pre_merge_validations"
    /\ LET r == pre_merge_validations(subgraphs)
       IN  /\ calls' = Append(calls, Call("pre_merge_validations", subgraphs, <<>>, r))
           /\ pc' = Question(r, "pre_merge_validations")
           /\ result' = Propagated(r)
    /\ UNCHANGED <<input, subgraphs, supergraph, engine>>

Merge ==
    /\ pc = "merge_subgraphs"
    /\ \E outcome \in MergeOutcomes :
          LET r == merge_subgraphs(subgraphs, outcome)
              conv == subgraphs_for_merge(subgraphs)
          IN  /\ calls' = Append(calls, Call("merge_subgraphs", subgraphs, outcome, r))
              /\ engine' = IF conv.ok THEN Append(engine, conv.value) ELSE engine
              /\ supergraph' = IF r.ok THEN <<r.value>> ELSE <<>>
              /\ pc' = Question(r, "merge_subgraphs")
              /\ result' = Propagated(r)
    /\ subgraphs' = <<>>
    /\ UNCHANGED input

PostMerge ==
    /\ pc = "post_merge_validations"
    /\ \E o \in PostMergeOutcomes :
          LET r == post_merge_validations(supergraph[1], o)
          IN  /\ calls' = Append(calls,
                     Call("post_merge_validations", supergraph[1], o, r))
              /\ pc' = Question(r, "post_merge_validations")
              /\ result' = Propagated(r)
    /\ UNCHANGED <<input, subgraphs, supergraph, engine>>

Satisfiability ==
    /\ pc = "validate_satisfiability"
    /\ \E outcome \in SatisfiabilityOutcomes :
          LET r == validate_satisfiability(supergraph[1], outcome)
          IN  /\ calls' = Append(calls,
                     Call("validate_satisfiability", supergraph[1], outcome, r))
              /\ result' = <<r>>
    /\ pc' = "done"
    /\ supergraph' = <<>>
    /\ UNCHANGED <<input, subgraphs, engine>>

Next ==
    \/ Expand
    \/ Upgrade
    \/ Validate
    \/ PreMerge
    \/ Merge
    \/ PostMerge
    \/ Satisfiability

Spec == Init /\ [][Next]_vars

(***************************************************************************)
(* merge_subgraphs called on its own, as the tests call it                 *)
(***************************************************************************)
\* the Subgraph<Validated> values a caller can build: expand_links, upgrade
\* and validate applied in turn to a new subgraph, each succeeding
ValidatedSubgraphs ==
    {validate(upgrade(expand_links(s).value).value).value :
        s \in {t \in InitialSubgraphs :
                  /\ expand_links(t).ok
                  /\ upgrade(expand_links(t).value).ok
                  /\ validate(upgrade(expand_links(t).value).value).ok}}

InitCalls ==
    /\ input \in SeqsUpTo(ValidatedSubgraphs, MaxSubgraphs)
    /\ subgraphs = input
    /\ pc = "merge_subgraphs"
    /\ supergraph = <<>>
    /\ calls = <<>>
    /\ engine = <<>>
    /\ result = <<>>

CallMergeSubgraphs ==
    /\ pc = "merge_subgraphs"
    /\ \E outcome \in MergeOutcomes :
          LET r == merge_subgraphs(subgraphs, outcome)
              conv == subgraphs_for_merge(subgraphs)
          IN  /\ calls' = Append(calls, Call("merge_subgraphs", subgraphs, outcome, r))
              /\ engine' = IF conv.ok THEN Append(engine, conv.value) ELSE engine
              /\ result' = <<r>>
    /\ pc' = "done"
    /\ subgraphs' = <<>>
    /\ UNCHANGED <<input, supergraph>>

NextCalls == CallMergeSubgraphs

SpecCalls == InitCalls /\ [][NextCalls]_vars

(***************************************************************************)
(* Properties                                                              *)
(***************************************************************************)
BatchCalls ==
    {i \in 1..Len(calls) : calls[i].fn \in {"expand_subgraphs", "validate_subgraphs"}}

\* the per-subgraph transition a batch stage applies
Transition(fn, s) == IF fn = "expand_subgraphs" THEN expand_links(s) ELSE validate(s)

Failing(c) == {j \in 1..Len(c.arg) : ~Transition(c.fn, c.arg[j]).ok}

\* the failing positions of a call, in input order
FailingInOrder(c) ==
    CHOOSE f \in [1..Cardinality(Failing(c)) -> Failing(c)] :
        \A a, b \in DOMAIN f : a < b => f[a] < f[b]

\* C1: a batch stage (expand_subgraphs, validate_subgraphs) given N subgraphs of
\* which exactly K fail the transition, 1 <= K < N, returns Err with exactly K
\* errors, the k-th being the error of the k-th failing subgraph, and none of the
\* N-K transformed subgraphs.
C1_BatchAllOrNothing ==
    \A i \in BatchCalls :
        LET c == calls[i]
            K == Cardinality(Failing(c))
        IN  (1 <= K /\ K < Len(c.arg)) =>
                /\ ~c.ret.ok
                /\ c.ret.value = <<>>
                /\ Len(c.ret.errors) = K
                /\ \A k \in 1..K :
                      c.ret.errors[k] = Transition(c.fn, c.arg[FailingInOrder(c)[k]]).error

C1_Witness ==
    \E i \in BatchCalls :
        /\ calls[i].fn = "validate_subgraphs"
        /\ Len(calls[i].arg) = 3
        /\ Cardinality(Failing(calls[i])) = 2
        /\ Len(calls[i].ret.errors) = 2

\* C2: when every per-subgraph transition of a batch stage succeeds, the output
\* has the length of the input and its i-th element is the transition result of
\* the i-th input subgraph.
C2_BatchKeepsOrder ==
    \A i \in BatchCalls :
        LET c == calls[i]
        IN  Failing(c) = {} =>
                /\ c.ret.ok
                /\ Len(c.ret.value) = Len(c.arg)
                /\ \A j \in 1..Len(c.arg) :
                      c.ret.value[j] = Transition(c.fn, c.arg[j]).value

C2_Witness ==
    \E i \in BatchCalls :
        /\ calls[i].fn = "validate_subgraphs"
        /\ calls[i].ret.ok
        /\ Len(calls[i].arg) = 3
        /\ calls[i].arg[1] # calls[i].arg[3]
        /\ calls[i].ret.value[1] = Advance(calls[i].arg[1], "Validated")

Invoked == [i \in 1..Len(calls) |-> calls[i].fn]

\* C3: a failing stage aborts compose(): the failing call is the last call ever
\* made, compose() has returned, and it returned exactly that stage's errors.
\* In particular validate_satisfiability is not called after a failing
\* post_merge_validations.
C3_FailingStageAborts ==
    \A i \in 1..Len(calls) :
        ~calls[i].ret.ok =>
            /\ i = Len(calls)
            /\ pc = "done"
            /\ result = <<Err(calls[i].ret.errors)>>
            /\ (calls[i].fn = "post_merge_validations" =>
                    \A j \in 1..Len(calls) : calls[j].fn # "validate_satisfiability")

C3_Witness ==
    /\ pc = "done"
    /\ Len(calls) = 6
    /\ calls[6].fn = "post_merge_validations"
    /\ ~calls[6].ret.ok
    /\ Len(calls[6].ret.errors) = 2

\* C4: compose() returns Ok, a Satisfiable supergraph, only when the seven
\* stages were each called once, in the order expand, upgrade, validate,
\* pre-merge validate, merge, post-merge validate, satisfiability, and each
\* returned Ok.
C4_OkOnlyAfterAllStages ==
    (result # <<>> /\ result[1].ok) =>
        /\ Invoked = <<"expand_subgraphs", "upgrade_subgraphs_if_necessary",
                       "validate_subgraphs", "pre_merge_validations",
                       "merge_subgraphs", "post_merge_validations",
                       "validate_satisfiability">>
        /\ \A i \in 1..Len(calls) : calls[i].ret.ok
        /\ result[1].value.state = "Satisfiable"
        /\ pc = "done"

C4_Witness == result # <<>> /\ result[1].ok /\ Len(calls) = 7

StatesOf(subs) == {subs[j].state : j \in 1..Len(subs)}

\* the state a stage takes its subgraphs in, and the state it returns them in
TakenIn(fn) ==
    CASE fn = "expand_subgraphs" -> "Initial"
      [] fn = "upgrade_subgraphs_if_necessary" -> "Expanded"
      [] fn = "validate_subgraphs" -> "Upgraded"
      [] OTHER -> "Validated"

ReturnedIn(fn) ==
    CASE fn = "expand_subgraphs" -> "Expanded"
      [] fn = "upgrade_subgraphs_if_necessary" -> "Upgraded"
      [] OTHER -> "Validated"

SubgraphStages ==
    {"expand_subgraphs", "upgrade_subgraphs_if_necessary", "validate_subgraphs",
     "pre_merge_validations", "merge_subgraphs"}

\* C5: a subgraph's state tag advances only along Initial -> Expanded ->
\* Upgraded -> Validated, one step at a time: every stage is applied to
\* subgraphs in exactly the state it takes (validate only to Upgraded ones,
\* upgrade only to Expanded ones) and the subgraphs compose() holds are all in
\* the state its position implies.
C5_StateTagsAdvanceInOrder ==
    /\ \A i \in 1..Len(calls) :
          calls[i].fn \in SubgraphStages =>
              /\ StatesOf(calls[i].arg) \subseteq {TakenIn(calls[i].fn)}
              /\ (calls[i].fn \notin {"pre_merge_validations", "merge_subgraphs"}
                    => StatesOf(calls[i].ret.value) \subseteq {ReturnedIn(calls[i].fn)})
    /\ pc \in SubgraphStages => StatesOf(subgraphs) \subseteq {TakenIn(pc)}

C5_Witness ==
    /\ pc = "merge_subgraphs"
    /\ Len(subgraphs) = 2
    /\ StatesOf(subgraphs) = {"Validated"}
    /\ StatesOf(input) = {"Initial"}

PreMergeCalls == {i \in 1..Len(calls) : calls[i].fn = "pre_merge_validations"}

\* the positions whose serialized schema equals that of an earlier position
Repeats(subs) ==
    {k \in 1..Len(subs) :
        \E j \in 1..(k - 1) : schema_string(subs[j]) = schema_string(subs[k])}

\* the positions whose schema does not convert to a federation schema
Unconvertible(subs) ==
    {k \in 1..Len(subs) : ~ValidFederationSchema(subs[k].schema).ok}

Count(errors, P(_)) == Cardinality({k \in 1..Len(errors) : P(errors[k])})

IsDuplicateSchema(e) == e = DuplicateSchema
IsSubgraphError(e) == e.kind = "SubgraphError"
IsTypeDefinitionInvalid(e) == e.kind = "TypeDefinitionInvalid"

\* C6: pre_merge_validations on subgraphs of which two serialize identically
\* returns Err with at least one TypeDefinitionInvalid; on subgraphs whose
\* serialized schemas are pairwise different it emits no duplicate-schema error.
C6_DuplicateSchemasDetected ==
    \A i \in PreMergeCalls :
        LET c == calls[i]
        IN  /\ Repeats(c.arg) # {} =>
                  ~c.ret.ok /\ Count(c.ret.errors, IsTypeDefinitionInvalid) >= 1
            /\ Repeats(c.arg) = {} => Count(c.ret.errors, IsDuplicateSchema) = 0

C6_Witness ==
    \E i \in PreMergeCalls :
        /\ Len(calls[i].arg) = 3
        /\ Repeats(calls[i].arg) = {3}
        /\ schema_string(calls[i].arg[1]) = schema_string(calls[i].arg[3])
        /\ calls[i].arg[1].name # calls[i].arg[3].name
        /\ calls[i].ret.errors = <<DuplicateSchema>>

\* C7: a subgraph that fails the re-validation of pre_merge_validations gets a
\* SubgraphError whose subgraph field is that subgraph's name.
C7_RevalidationNamesSubgraph ==
    \A i \in PreMergeCalls :
        \A k \in Unconvertible(calls[i].arg) :
            \E n \in 1..Len(calls[i].ret.errors) :
                /\ calls[i].ret.errors[n].kind = "SubgraphError"
                /\ calls[i].ret.errors[n].subgraph = calls[i].arg[k].name

\* C8: pre_merge_validations runs both loops over every subgraph: its errors
\* are one duplicate error per subgraph that repeats an earlier schema, then one
\* SubgraphError per subgraph that fails re-validation, and it returns Ok
\* exactly when there is neither.
C8_PreMergeAccumulates ==
    \A i \in PreMergeCalls :
        LET c == calls[i]
            D == Cardinality(Repeats(c.arg))
            R == Cardinality(Unconvertible(c.arg))
        IN  /\ c.ret.ok <=> (D = 0 /\ R = 0)
            /\ Len(c.ret.errors) = D + R
            /\ Count(c.ret.errors, IsDuplicateSchema) = D
            /\ Count(c.ret.errors, IsSubgraphError) = R

C8_Witness ==
    \E i \in PreMergeCalls :
        /\ Cardinality(Repeats(calls[i].arg)) = 1
        /\ Cardinality(Unconvertible(calls[i].arg)) = 2
        /\ Len(calls[i].ret.errors) = 3

MergeCalls == {i \in 1..Len(calls) : calls[i].fn = "merge_subgraphs"}

NamesOf(subs) == {subs[j].name : j \in 1..Len(subs)}

\* C9: for N validated subgraphs with N distinct names that all convert,
\* merge_subgraphs invokes the merge engine once, with a map of exactly N
\* entries, each keyed by a subgraph's name and carrying its routing URL.
C9_MergeInputKeyedByName ==
    \A i \in MergeCalls :
        LET subs == calls[i].arg
        IN  (Cardinality(NamesOf(subs)) = Len(subs) /\ Unconvertible(subs) = {}) =>
                /\ Len(engine) = 1
                /\ Cardinality(DOMAIN engine[1]) = Len(subs)
                /\ DOMAIN engine[1] = NamesOf(subs)
                /\ \A j \in 1..Len(subs) :
                      /\ engine[1][subs[j].name].name = subs[j].name
                      /\ engine[1][subs[j].name].url = subs[j].url

TypeNames(schema) == DOMAIN schema.types

\* C10: merging two differently named subgraphs that define disjoint object
\* types, the root query being declared in only one of them, gives a
\* supergraph whose type set is non-empty, includes the types of both, and has
\* the root query.
C10_MergeKeepsBothSubgraphs ==
    \A i \in MergeCalls :
        LET subs == calls[i].arg
        IN  (/\ Len(subs) = 2
             /\ subs[1].name # subs[2].name
             /\ TypeNames(subs[1].schema) # {}
             /\ TypeNames(subs[2].schema) # {}
             /\ TypeNames(subs[1].schema) \cap TypeNames(subs[2].schema) = {}
             /\ subs[1].schema.query # subs[2].schema.query
             /\ calls[i].ret.ok) =>
                /\ TypeNames(calls[i].ret.value.schema) # {}
                /\ TypeNames(subs[1].schema) \subseteq TypeNames(calls[i].ret.value.schema)
                /\ TypeNames(subs[2].schema) \subseteq TypeNames(calls[i].ret.value.schema)
                /\ calls[i].ret.value.schema.query

\* C11: when the merge engine fails with M conflict messages, merge_subgraphs
\* returns Err with exactly M InternalError entries, the i-th carrying the i-th
\* message verbatim; when the engine succeeds, merge_subgraphs returns a Merged
\* supergraph wrapping exactly the schema the engine returned.
C11_MergeResultTranslated ==
    \A i \in MergeCalls :
        LET c == calls[i]
            M == Len(c.outcome.errors)
        IN  Unconvertible(c.arg) = {} =>
                /\ ~c.outcome.ok =>
                      /\ ~c.ret.ok
                      /\ Len(c.ret.errors) = M
                      /\ \A k \in 1..M :
                            /\ c.ret.errors[k].kind = "InternalError"
                            /\ c.ret.errors[k].message = c.outcome.errors[k]
                /\ c.outcome.ok =>
                      /\ c.ret.ok
                      /\ c.ret.value.state = "Merged"
                      /\ c.ret.value.schema =
                            merge_federation_subgraphs(engine[Len(engine)], c.outcome).value

C11_Witness ==
    \E i \in MergeCalls :
        /\ calls[i].outcome.errors = <<<<"conflict 1">>, <<"conflict 2">>>>
        /\ Len(calls[i].ret.errors) = 2
        /\ calls[i].ret.errors[2] = InternalError(<<"conflict 2">>)

PostMergeCalls == {i \in 1..Len(calls) : calls[i].fn = "post_merge_validations"}

EmptySupergraph == TypeDefinitionInvalid(<<"Empty supergraph schema">>)

Mentions(e, text) == \E k \in 1..Len(e.message) : e.message[k] = text

IsMissingRootQuery(e) ==
    e.kind = "TypeDefinitionInvalid" /\ Mentions(e, "Missing root Query type")

IsEmptySupergraph(e) == e = EmptySupergraph

\* C12: post_merge_validations on a merged schema that declares no root query
\* returns Err containing a TypeDefinitionInvalid whose message contains
\* "Missing root Query type"; on a schema with a root query and at least one
\* type it emits neither that error nor the empty-schema error.
C12_RootQueryRequired ==
    \A i \in PostMergeCalls :
        LET c == calls[i]
            schema == c.arg.schema
        IN  /\ ~schema.query =>
                  ~c.ret.ok /\ Count(c.ret.errors, IsMissingRootQuery) >= 1
            /\ (schema.query /\ TypeNames(schema) # {}) =>
                  /\ Count(c.ret.errors, IsMissingRootQuery) = 0
                  /\ Count(c.ret.errors, IsEmptySupergraph) = 0

C12_Witness ==
    \E i \in PostMergeCalls :
        /\ ~calls[i].arg.schema.query
        /\ TypeNames(calls[i].arg.schema) = {"T2"}
        /\ calls[i].outcome.fed /\ calls[i].outcome.graph
        /\ calls[i].ret.errors = <<TypeDefinitionInvalid(<<"Missing root Query type">>)>>

FieldsOf(schema) ==
    UNION {{<<t, f>> : f \in schema.types[t]} : t \in TypeNames(schema)}

Unresolvable(t, f) ==
    SatisfiabilityError(<<"Field '", t, ".", f, "' cannot be resolved across subgraphs">>)

\* C13: for every object type and field of the merged schema for which the
\* navigation graph has no resolution path, post_merge_validations emits a
\* SatisfiabilityError naming that type and field.
C13_UnresolvableFieldsReported ==
    \A i \in PostMergeCalls :
        LET c == calls[i]
        IN  (c.outcome.fed /\ c.outcome.graph) =>
                \A tf \in FieldsOf(c.arg.schema) \cap c.outcome.unreachable :
                    \E k \in 1..Len(c.ret.errors) :
                        c.ret.errors[k] = Unresolvable(tf[1], tf[2])

\* the errors of the first three steps: emptiness, root query, document validity
EmptinessErrors(schema) == IF TypeNames(schema) = {} THEN <<EmptySupergraph>> ELSE <<>>

RootQueryErrors(schema) ==
    IF schema.query THEN <<>>
    ELSE <<TypeDefinitionInvalid(<<"Missing root Query type">>)>>

DocumentErrors(o) == [k \in 1..Len(o.doc) |-> TypeDefinitionInvalid(o.doc[k])]

CollectedBeforeConversion(c) ==
    EmptinessErrors(c.arg.schema) \o RootQueryErrors(c.arg.schema) \o DocumentErrors(c.outcome)

IsInternalError(e) == e.kind = "InternalError"
IsSatisfiabilityError(e) == e.kind = "SatisfiabilityError"

\* C14: when the federation-schema conversion fails, or the navigation graph
\* cannot be built, post_merge_validations returns Err holding the errors of
\* the earlier steps followed by exactly one InternalError (of the step that
\* failed), and nothing of a later step.
C14_FatalStepKeepsCollected ==
    \A i \in PostMergeCalls :
        LET c == calls[i]
            before == CollectedBeforeConversion(c)
            n == Len(c.ret.errors)
        IN  (~c.outcome.fed \/ ~c.outcome.graph) =>
                /\ ~c.ret.ok
                /\ n = Len(before) + 1
                /\ SubSeq(c.ret.errors, 1, n - 1) = before
                /\ Count(c.ret.errors, IsInternalError) = 1
                /\ Count(c.ret.errors, IsSatisfiabilityError) = 0
                /\ c.ret.errors[n].kind = "InternalError"
                /\ c.ret.errors[n].message[1] =
                      (IF ~c.outcome.fed THEN "Failed to convert schema: "
                       ELSE "Failed to build federated query graph: ")

C14_Witness ==
    \E i \in PostMergeCalls :
        /\ ~calls[i].outcome.fed
        /\ ~calls[i].outcome.graph
        /\ Len(CollectedBeforeConversion(calls[i])) = 3
        /\ Len(calls[i].ret.errors) = 4

\* what each step of post_merge_validations finds, as answered by the schema
\* and the collaborators
StepFindings(c) ==
    [empty |-> TypeNames(c.arg.schema) = {},
     noQuery |-> ~c.arg.schema.query,
     doc |-> Len(c.outcome.doc),
     fatal |-> IF ~c.outcome.fed \/ ~c.outcome.graph THEN 1 ELSE 0]

B2N(b) == IF b THEN 1 ELSE 0

\* C15: post_merge_validations returns Ok exactly when no step emitted an
\* error; otherwise it returns every emitted error in step order (empty
\* schema, missing root query, document errors, conversion or graph error),
\* the first three steps each reporting whatever the others found.
C15_PostMergeAccumulates ==
    \A i \in PostMergeCalls :
        LET c == calls[i]
            f == StepFindings(c)
            e == c.ret.errors
            a == B2N(f.empty)
            b == a + B2N(f.noQuery)
            d == b + f.doc
        IN  /\ c.ret.ok <=> (~f.empty /\ ~f.noQuery /\ f.doc = 0 /\ f.fatal = 0)
            /\ Len(e) = d + f.fatal
            /\ f.empty => IsEmptySupergraph(e[1])
            /\ f.noQuery => IsMissingRootQuery(e[b])
            /\ \A k \in 1..f.doc : e[b + k] = TypeDefinitionInvalid(c.outcome.doc[k])
            /\ f.fatal = 1 => IsInternalError(e[d + 1])

C15_Witness ==
    \E i \in PostMergeCalls :
        /\ TypeNames(calls[i].arg.schema) = {}
        /\ ~calls[i].arg.schema.query
        /\ Len(calls[i].outcome.doc) = 1
        /\ calls[i].outcome.fed /\ calls[i].outcome.graph
        /\ Len(calls[i].ret.errors) = 3

StagesOfModule ==
    {"expand_subgraphs", "validate_subgraphs", "pre_merge_validations",
     "merge_subgraphs", "post_merge_validations"}

\* C16: whenever one of the stages expand_subgraphs, validate_subgraphs,
\* pre_merge_validations, merge_subgraphs, post_merge_validations returns Err,
\* and whenever compose() returns the Err of one of them, the error list is
\* not empty, whatever the collaborators answer.
C16_ErrorsNeverEmpty ==
    \A i \in 1..Len(calls) :
        (calls[i].fn \in StagesOfModule /\ ~calls[i].ret.ok) =>
            /\ calls[i].ret.errors # <<>>
            /\ result # <<>> => result[1].errors # <<>>

\* C17: when several input subgraphs fail the conversion in merge_subgraphs,
\* the returned Err holds one SubgraphError for every failing subgraph.
C17_MergeAccumulatesConversionFailures ==
    \A i \in MergeCalls :
        Unconvertible(calls[i].arg) # {} =>
            /\ ~calls[i].ret.ok
            /\ Count(calls[i].ret.errors, IsSubgraphError)
                  = Cardinality(Unconvertible(calls[i].arg))

\* C18: when an input subgraph fails the conversion in merge_subgraphs the
\* merge engine is not invoked in that call; the engine is invoked at most once
\* per call, and only when every input subgraph has been converted.
C18_EngineOnlyAfterAllConverted ==
    \A i \in MergeCalls :
        /\ Len(engine) <= 1
        /\ Unconvertible(calls[i].arg) # {} => engine = <<>>
        /\ (calls[i].ret.ok \/ Count(calls[i].ret.errors, IsInternalError) > 0)
              => Len(engine) = 1

C18_Witness ==
    \E i \in MergeCalls :
        /\ Len(calls[i].arg) = 3
        /\ Unconvertible(calls[i].arg) = {2}
        /\ engine = <<>>
        /\ pc = "done"
        /\ result = <<Err(<<SubgraphError("Subgraph", <<"federation">>)>>)>>

\* the value the latest call of fn before position i returned
LastReturned(fn, i) ==
    LET j == CHOOSE k \in 1..(i - 1) :
                 /\ calls[k].fn = fn
                 /\ \A l \in (k + 1)..(i - 1) : calls[l].fn # fn
    IN  calls[j].ret.value

Called(fn, i) == \E k \in 1..(i - 1) : calls[k].fn = fn

\* C19: the validators change nothing: the list merge_subgraphs is given is
\* the list validate_subgraphs returned, element for element, which is also
\* what pre_merge_validations was shown; the supergraph validate_satisfiability
\* is given is the one merge_subgraphs returned, which is also what
\* post_merge_validations was shown.
C19_ValidatorsReadOnly ==
    \A i \in 1..Len(calls) :
        /\ calls[i].fn \in {"pre_merge_validations", "merge_subgraphs"} =>
              /\ Called("validate_subgraphs", i)
              /\ calls[i].arg = LastReturned("validate_subgraphs", i)
        /\ calls[i].fn \in {"post_merge_validations", "validate_satisfiability"} =>
              /\ Called("merge_subgraphs", i)
              /\ calls[i].arg = LastReturned("merge_subgraphs", i)

C19_Witness ==
    /\ Len(calls) = 7
    /\ calls[7].fn = "validate_satisfiability"
    /\ calls[5].fn = "merge_subgraphs"
    /\ Len(calls[5].arg) = 2
    /\ calls[5].arg[1] # calls[5].arg[2]
    /\ calls[5].arg = calls[3].ret.value
    /\ calls[7].arg = calls[5].ret.value

====
